---- MODULE Spec2Model ----
(***************************************************************************)
(* Model of dm-pii-entity-redactor (src/main.py): load_patterns,           *)
(* PIIEntityRedactor.__init__, redact_text and _get_replacement.           *)
(*                                                                         *)
(* Text is a sequence of one-character strings.  A rule is the source text *)
(* of a regular expression; re_compile gives its syntax tree and Ends,     *)
(* search and re_sub follow the backtracking matcher that re.sub runs.     *)
(***************************************************************************)
EXTENDS Integers, Sequences, FiniteSets, TLC

(***************************************************************************)
(* Character classes                                                       *)
(***************************************************************************)
Upper == {"A","B","C","D","E","F","G","H","I","J","K","L","M","N","O","P",
          "Q","R","S","T","U","V","W","X","Y","Z"}
Lower == {"a","b","c","d","e","f","g","h","i","j","k","l","m","n","o","p",
          "q","r","s","t","u","v","w","x","y","z"}
Digit == {"0","1","2","3","4","5","6","7","8","9"}
Space == {" ", "\t", "\n", "\r", "\f"}

(***************************************************************************)
(* Regular-expression syntax trees: every node is [op, cs, rs, n].         *)
(***************************************************************************)
Cls(cs)    == [op |-> "set",  cs |-> cs, rs |-> <<>>,  n |-> 0]
Lit(c)     == Cls({c})
Cat(rs)    == [op |-> "cat",  cs |-> {}, rs |-> rs,    n |-> 0]
Opt(r)     == [op |-> "opt",  cs |-> {}, rs |-> <<r>>, n |-> 0]
Star(r)    == [op |-> "star", cs |-> {}, rs |-> <<r>>, n |-> 0]
Plus(r)    == Cat(<<r, Star(r)>>)
Rep(r, k)  == Cat([j \in 1..k |-> r])
AtLeast(r, k) == Cat([j \in 1..(k + 1) |-> IF j <= k THEN r ELSE Star(r)])

(***************************************************************************)
(* The rules the program ships with (source text of each expression).      *)
(***************************************************************************)
NameRule    == "([A-Z][a-z]+) ([A-Z][a-z]+)"
AddressRule == "\\d+ [A-Za-z]+ St(?:reet)?"
PhoneRule   == "\\(?\\d{3}\\)?[-.\\s]?\\d{3}[-.\\s]?\\d{4}"
EmailRule   == "[a-zA-Z0-9._%+-]+@[a-zA-Z0-9.-]+\\.[a-zA-Z]{2,}"
DigitsRule  == "\\d*"
BadRule     == "("

Word == Cat(<<Cls(Upper), Plus(Cls(Lower))>>)
Sep  == Opt(Cls({"-", "."} \cup Space))

CompileError == [op |-> "error", cs |-> {}, rs |-> <<>>, n |-> 0]

\* re.compile: the syntax tree of a rule, or CompileError for a rule that
\* is not a valid expression.
re_compile(p) ==
    CASE p = NameRule    -> Cat(<<Word, Lit(" "), Word>>)
      [] p = AddressRule ->
            Cat(<<Plus(Cls(Digit)), Lit(" "), Plus(Cls(Upper \cup Lower)),
                  Lit(" "), Lit("S"), Lit("t"),
                  Opt(Cat(<<Lit("r"), Lit("e"), Lit("e"), Lit("t")>>))>>)
      [] p = PhoneRule   ->
            Cat(<<Opt(Lit("(")), Rep(Cls(Digit), 3), Opt(Lit(")")), Sep,
                  Rep(Cls(Digit), 3), Sep, Rep(Cls(Digit), 4)>>)
      [] p = EmailRule   ->
            Cat(<<Plus(Cls(Upper \cup Lower \cup Digit
                           \cup {".", "_", "%", "+", "-"})),
                  Lit("@"),
                  Plus(Cls(Upper \cup Lower \cup Digit \cup {".", "-"})),
                  Lit("."),
                  AtLeast(Cls(Upper \cup Lower), 2)>>)
      [] p = DigitsRule  -> Star(Cls(Digit))
      [] OTHER           -> CompileError

(***************************************************************************)
(* The matcher.  Ends(r, s, i) is the sequence of positions at which a     *)
(* match of r that starts after the first i characters of s can end, in    *)
(* the order the backtracking matcher tries them (greedy first).           *)
(***************************************************************************)
RECURSIVE Flatten(_)
Flatten(ss) == IF ss = <<>> THEN <<>> ELSE Head(ss) \o Flatten(Tail(ss))

RECURSIVE Ends(_, _, _)
RECURSIVE EndsCat(_, _, _)
EndsCat(rs, s, ps) ==
    IF rs = <<>> THEN ps
    ELSE EndsCat(Tail(rs), s,
                 Flatten([k \in 1..Len(ps) |-> Ends(Head(rs), s, ps[k])]))

Ends(r, s, i) ==
    CASE r.op = "set"  -> IF i < Len(s) /\ s[i + 1] \in r.cs
                          THEN <<i + 1>> ELSE <<>>
      [] r.op = "cat"  -> EndsCat(r.rs, s, <<i>>)
      [] r.op = "opt"  -> Ends(r.rs[1], s, i) \o <<i>>
      [] r.op = "star" ->
            LET one == SelectSeq(Ends(r.rs[1], s, i), LAMBDA e : e > i)
            IN  Flatten([k \in 1..Len(one) |-> Ends(r, s, one[k])]) \o <<i>>
      [] OTHER         -> <<>>

\* The end of the match the matcher reports at start b: the first one in
\* its order; an empty match is rejected when must_advance is set.
MatchAt(r, s, b, must_advance) ==
    LET es == SelectSeq(Ends(r, s, b),
                        LAMBDA e : must_advance => e > b)
    IN  IF es = <<>> THEN -1 ELSE Head(es)

\* pattern.search from pos: the leftmost match <<b, e>>, or <<>>.  Only a
\* match that starts at pos itself is subject to must_advance.
search(r, s, pos, must_advance) ==
    LET starts == {b \in pos..Len(s) :
                      MatchAt(r, s, b, must_advance /\ b = pos) >= 0}
    IN  IF starts = {} THEN <<>>
        ELSE LET b == CHOOSE c \in starts : \A d \in starts : c <= d
             IN  <<b, MatchAt(r, s, b, must_advance /\ b = pos)>>

Slice(s, a, b) == [k \in 1..(b - a) |-> s[a + k]]

\* The substitution loop of pattern.sub with a string replacement: copy the
\* text before each match, append the replacement, continue after the match.
RECURSIVE subx(_, _, _, _, _, _)
subx(r, repl, s, i, pos, must_advance) ==
    LET m == search(r, s, pos, must_advance)
    IN  IF m = <<>> THEN Slice(s, i, Len(s))
        ELSE Slice(s, i, m[1]) \o repl
             \o subx(r, repl, s, m[2], m[2], m[2] = m[1])

\* A substitution that stops after the first match (count = 1).
re_sub_first(r, repl, s) ==
    LET m == search(r, s, 0, FALSE)
    IN  IF m = <<>> THEN s
        ELSE Slice(s, 0, m[1]) \o repl \o Slice(s, m[2], Len(s))

\* A substitution that appends the replacement once more after the tail.
re_sub_append(r, repl, s) == subx(r, repl, s, 0, 0, FALSE) \o repl

re_sub(r, repl, s) == subx(r, repl, s, 0, 0, FALSE)

\* pattern.finditer: the spans of the matches re_sub replaces.
RECURSIVE finditer(_, _, _, _)
finditer(r, s, pos, must_advance) ==
    LET m == search(r, s, pos, must_advance)
    IN  IF m = <<>> THEN <<>>
        ELSE <<m>> \o finditer(r, s, m[2], m[2] = m[1])

(***************************************************************************)
(* Input texts                                                             *)
(***************************************************************************)
Scenario1 == <<
    "M","y"," ","n","a","m","e"," ","i","s"," ","J","o","h","n"," ","D","o",
    "e"," ","a","n","d"," ","m","y"," ","a","d","d","r","e","s","s"," ","i",
    "s"," ","1","2","3"," ","M","a","i","n"," ","S","t"," ","a","n","d"," ",
    "m","y"," ","p","h","o","n","e"," ","n","u","m","b","e","r"," ","i","s",
    " ","5","5","5","-","1","2","3","-","4","5","6","7" >>
EmailText == <<
    "M","y"," ","e","m","a","i","l"," ","i","s"," ","t","e","s","t","@","e",
    "x","a","m","p","l","e",".","c","o","m" >>
TwoNames == <<
    "A","l"," ","R","o","e"," ","m","e","t"," ","B","o"," ","P","o","e" >>
NoPII == <<"n","o"," ","p","i","i"," ","h","e","r","e">>

Digits3 == <<"a","1","2">>

Texts == {<<>>, NoPII, TwoNames, EmailText, Scenario1, Digits3}

(***************************************************************************)
(* Values a pattern mapping can hold after json.load, and the              *)
(* configuration sources given with --patterns.                            *)
(***************************************************************************)
PyStr(v) == [t |-> "str", v |-> v]
PyInt    == [t |-> "int", v |-> "5"]
PyNone   == [t |-> "NoneType", v |-> "null"]
PyList   == [t |-> "list", v |-> "[]"]
PyDict   == [t |-> "dict", v |-> "{}"]

\* A default set that lacks the phone rule.
default_patterns_no_phone ==
    << <<"name", PyStr(NameRule)>>,
       <<"address", PyStr(AddressRule)>> >>

\* _default_patterns
default_patterns ==
    << <<"name", PyStr(NameRule)>>,
       <<"address", PyStr(AddressRule)>>,
       <<"phone_number", PyStr(PhoneRule)>> >>

Source(file, top, items) == [file |-> file, top |-> top, items |-> items]
NoFile == Source("none", "none", <<>>)

Configs ==
    { NoFile,
      Source("missing", "none", <<>>),
      Source("malformed", "none", <<>>),
      Source("ok", "array", <<>>),
      Source("ok", "number", <<>>),
      Source("ok", "object", <<>>),
      Source("ok", "object", << <<"email", PyStr(EmailRule)>> >>),
      Source("ok", "object", << <<"email", PyStr(EmailRule)>>,
                                <<"count", PyInt>> >>),
      Source("ok", "object", << <<"nothing", PyNone>> >>),
      Source("ok", "object", << <<"many", PyList>> >>),
      Source("ok", "object", << <<"nested", PyDict>> >>),
      Source("ok", "object", << <<"email", PyStr(EmailRule)>>,
                                <<"broken", PyStr(BadRule)>> >>),
      Source("ok", "object", << <<"phone_number", PyStr(PhoneRule)>>,
                                <<"name", PyStr(NameRule)>> >>),
      Source("ok", "object", << <<"name", PyStr(DigitsRule)>> >>) }

(***************************************************************************)
(* The synthetic-value generator (Faker): each call returns one of a few   *)
(* values of the category, or raises.  The values hold no backslash, as    *)
(* Faker's names, addresses and phone numbers do not, so re.sub inserts    *)
(* the replacement literally.                                              *)
(***************************************************************************)
MaxFake == 2

FakeNames == << <<"A","l"," ","R","o","e">>,
                <<"B","o"," ","S","t","o","n","e">>,
                <<"C","y"," ","P","o","e">> >>
FakeAddresses == << <<"7"," ","E","l","m"," ","R","d">>,
                    <<"8"," ","O","a","k"," ","S","t">>,
                    <<"9"," ","A","s","h"," ","S","t","r","e","e","t">> >>
FakePhones == << <<"5","5","5",".","0","1","0",".","0","1","4","2">>,
                 <<"(","5","5","5",")","0","1","0","-","0","1","9","9">>,
                 <<"5","5","5","-","0","1","0","0">> >>

Min(a, b) == IF a < b THEN a ELSE b
Returned(v) == [raised |-> FALSE, value |-> v]
Raised      == [raised |-> TRUE,  value |-> <<>>]

\* The outcomes of self.faker.name(), .address() and .phone_number().
faker(method) ==
    LET vs == CASE method = "name"    -> FakeNames
                [] method = "address" -> FakeAddresses
                [] OTHER              -> FakePhones
    IN  {Returned(vs[k]) : k \in 1..Min(MaxFake, Len(vs))} \cup {Raised}

REDACTED == <<"[","R","E","D","A","C","T","E","D","]">>

Known == {"name", "address", "phone_number"}

\* A dispatch whose last branch ends in the placeholder.
get_replacement_placeholder(entity_type) ==
    IF entity_type \in Known
    THEN {[value  |-> IF o.raised THEN REDACTED ELSE o.value,
           failed |-> o.raised,
           calls  |-> 1] : o \in faker(entity_type)}
    ELSE {[value |-> REDACTED, failed |-> FALSE, calls |-> 0]}

\* _get_replacement: the possible results of one call, each with the value
\* returned, whether the generator raised, and the generator calls made.
get_replacement(entity_type) ==
    IF entity_type \in Known
    THEN {[value  |-> IF o.raised THEN REDACTED ELSE o.value,
           failed |-> o.raised,
           calls  |-> 1] : o \in faker(entity_type)}
    ELSE {[value |-> <<>>, failed |-> FALSE, calls |-> 0]}

\* load_patterns: the exception raised, or the mapping returned.
load_patterns(source) ==
    IF source.file = "missing"
    THEN [exc |-> "FileNotFoundError", items |-> <<>>]
    ELSE IF source.file = "malformed"
    THEN [exc |-> "JSONDecodeError", items |-> <<>>]
    ELSE IF source.top # "object"
    THEN [exc |-> "TypeError", items |-> <<>>]
    ELSE [exc |-> "none", items |-> source.items]

\* A call of re.sub that swallows the compile error and keeps the text.
re_sub_call_swallow(pattern, repl, string) ==
    IF pattern.t # "str"
    THEN [exc |-> "TypeError", text |-> <<>>]
    ELSE IF re_compile(pattern.v) = CompileError
    THEN [exc |-> "none", text |-> string]
    ELSE [exc |-> "none",
          text |-> re_sub(re_compile(pattern.v), repl, string)]

\* re.sub(pattern, repl, string) as line 54 calls it: TypeError for a
\* pattern that is not a string, re.error for one that does not compile,
\* and the substituted text otherwise.
re_sub_call(pattern, repl, string) ==
    IF pattern.t # "str"
    THEN [exc |-> "TypeError", text |-> <<>>]
    ELSE IF re_compile(pattern.v) = CompileError
    THEN [exc |-> "re.error", text |-> <<>>]
    ELSE [exc |-> "none",
          text |-> re_sub(re_compile(pattern.v), repl, string)]

None == [is_none |-> TRUE, items |-> <<>>]
Dict(items) == [is_none |-> FALSE, items |-> items]

\* Truth value of `patterns` in `patterns or self._default_patterns()`.
Truthy(p) == ~p.is_none /\ p.items # <<>>

NoResult == [returned |-> FALSE, text |-> <<>>]

(***************************************************************************)
(* State                                                                   *)
(***************************************************************************)
VARIABLES
    pc,             \* position in main / redact_text
    cfg,            \* args.patterns: the configuration source
    text,           \* input_text
    loaded,         \* main's local `patterns`
    patterns,       \* self.patterns, in insertion order
    redacted_text,  \* redact_text's local
    idx,            \* position of the loop over self.patterns.items()
    err,            \* the exception that left load_patterns / redact_text
    result,         \* the value redact_text returned
    trace           \* one record per completed pass of the loop

vars == <<pc, cfg, text, loaded, patterns, redacted_text, idx, err, result,
          trace>>

Init ==
    /\ pc = "main"
    /\ cfg \in Configs
    /\ text \in Texts
    /\ loaded = None
    /\ patterns = <<>>
    /\ redacted_text = <<>>
    /\ idx = 0
    /\ err = "none"
    /\ result = NoResult
    /\ trace = <<>>

\* main, lines 152-154 with --patterns: patterns = load_patterns(...)
main_load_patterns ==
    /\ pc = "main"
    /\ cfg.file # "none"
    /\ LET r == load_patterns(cfg)
       IN  IF r.exc # "none"
           THEN /\ err' = r.exc
                /\ pc' = "exit"
                /\ loaded' = loaded
           ELSE /\ loaded' = Dict(r.items)
                /\ pc' = "init"
                /\ err' = err
    /\ UNCHANGED <<cfg, text, patterns, redacted_text, idx, result, trace>>

\* main, lines 152-153 without --patterns: patterns stays None
main_no_patterns ==
    /\ pc = "main"
    /\ cfg.file = "none"
    /\ pc' = "init"
    /\ UNCHANGED <<cfg, text, loaded, patterns, redacted_text, idx, err,
                   result, trace>>

\* PIIEntityRedactor.__init__
PIIEntityRedactor_init ==
    /\ pc = "init"
    /\ patterns' = IF Truthy(loaded) THEN loaded.items ELSE default_patterns
    /\ pc' = "ready"
    /\ UNCHANGED <<cfg, text, loaded, redacted_text, idx, err, result, trace>>

\* redact_text, line 51
redact_text ==
    /\ pc = "ready"
    /\ redacted_text' = text
    /\ idx' = 1
    /\ pc' = "loop"
    /\ UNCHANGED <<cfg, text, loaded, patterns, err, result, trace>>

\* A loop whose every pass substitutes in the original text.
redact_pass_on_input ==
    /\ pc = "loop"
    /\ idx <= Len(patterns)
    /\ LET entity_type == patterns[idx][1]
           pattern     == patterns[idx][2]
       IN  \E g \in get_replacement(entity_type) :
             LET r == re_sub_call(pattern, g.value, text)
             IN  IF r.exc # "none"
                 THEN /\ err' = r.exc
                      /\ pc' = "raised"
                      /\ UNCHANGED <<redacted_text, idx, trace>>
                 ELSE /\ redacted_text' = r.text
                      /\ idx' = idx + 1
                      /\ trace' = Append(trace,
                            [entity_type |-> entity_type,
                             pattern     |-> pattern.v,
                             input       |-> text,
                             repl        |-> g.value,
                             failed      |-> g.failed,
                             calls       |-> g.calls,
                             output      |-> r.text])
                      /\ UNCHANGED <<pc, err>>
    /\ UNCHANGED <<cfg, text, loaded, patterns, result>>

\* redact_text, lines 53-60: one iteration of the loop.  The replacement is
\* computed first (one call of _get_replacement), then re.sub compiles the
\* rule and substitutes; an exception leaves redact_text.
redact_pass ==
    /\ pc = "loop"
    /\ idx <= Len(patterns)
    /\ LET entity_type == patterns[idx][1]
           pattern     == patterns[idx][2]
       IN  \E g \in get_replacement(entity_type) :
             LET r == re_sub_call(pattern, g.value, redacted_text)
             IN  IF r.exc # "none"
                 THEN /\ err' = r.exc
                      /\ pc' = "raised"
                      /\ UNCHANGED <<redacted_text, idx, trace>>
                 ELSE /\ redacted_text' = r.text
                      /\ idx' = idx + 1
                      /\ trace' = Append(trace,
                            [entity_type |-> entity_type,
                             pattern     |-> pattern.v,
                             input       |-> redacted_text,
                             repl        |-> g.value,
                             failed      |-> g.failed,
                             calls       |-> g.calls,
                             output      |-> r.text])
                      /\ UNCHANGED <<pc, err>>
    /\ UNCHANGED <<cfg, text, loaded, patterns, result>>

\* redact_text, line 61
redact_return ==
    /\ pc = "loop"
    /\ idx > Len(patterns)
    /\ result' = [returned |-> TRUE, text |-> redacted_text]
    /\ pc' = "done"
    /\ UNCHANGED <<cfg, text, loaded, patterns, redacted_text, idx, err,
                   trace>>

Next ==
    \/ main_load_patterns
    \/ main_no_patterns
    \/ PIIEntityRedactor_init
    \/ redact_text
    \/ redact_pass
    \/ redact_return

Spec == Init /\ [][Next]_vars

(***************************************************************************)
(* Auxiliary definitions for the properties                                *)
(***************************************************************************)
\* The spans re.sub replaces when the rule p is applied to s.
Spans(p, s) == finditer(re_compile(p), s, 0, FALSE)

RECURSIVE SpanChars(_)
SpanChars(sp) ==
    IF sp = <<>> THEN 0 ELSE (Head(sp)[2] - Head(sp)[1]) + SpanChars(Tail(sp))

\* Number of spans that end before the character at position p.
Before(sp, p) == Cardinality({j \in DOMAIN sp : sp[j][2] < p})

\* Offset in the output of what follows the first j spans.
Shift(sp, len, j) ==
    j * len - SpanChars(SubSeq(sp, 1, j))

Inside(sp, p) == \E j \in DOMAIN sp : sp[j][1] < p /\ p <= sp[j][2]

\* s with each span of sp replaced by repl, last span first.
RECURSIVE Splice(_, _, _)
Splice(s, sp, repl) ==
    IF sp = <<>> THEN s
    ELSE LET last == sp[Len(sp)]
         IN  Splice(Slice(s, 0, last[1]) \o repl \o Slice(s, last[2], Len(s)),
                    SubSeq(sp, 1, Len(sp) - 1), repl)

PassSpans(t) == Spans(t.pattern, t.input)

Valid(k) ==
    /\ patterns[k][2].t = "str"
    /\ re_compile(patterns[k][2].v) # CompileError

AfterInit == pc \in {"ready", "loop", "done", "raised"}

(***************************************************************************)
(* C1  In a redact call the generator is invoked once per match: a pass of *)
(* a generated category with k matches makes k generator calls.            *)
(***************************************************************************)
C1_CallPerMatch ==
    \A n \in DOMAIN trace :
        (trace[n].entity_type \in Known /\ PassSpans(trace[n]) # <<>>) =>
            trace[n].calls = Len(PassSpans(trace[n]))

(***************************************************************************)
(* C2  A failed generation puts the placeholder on one occurrence only:    *)
(* in a pass, no more matches become [REDACTED] than generator calls       *)
(* failed.                                                                 *)
(***************************************************************************)
PlaceholderCount(t) == IF t.repl = REDACTED THEN Len(PassSpans(t)) ELSE 0
FailedCalls(t) == IF t.failed THEN t.calls ELSE 0

C2_FailureIsolated ==
    \A n \in DOMAIN trace :
        PlaceholderCount(trace[n]) <= FailedCalls(trace[n])

(***************************************************************************)
(* C3  The categories are applied in insertion order, each exactly once;   *)
(* pass N substitutes in the text that passes 1..N-1 produced, and the     *)
(* returned text is the composition of the passes in that order.           *)
(***************************************************************************)
RECURSIVE Composed(_)
Composed(n) ==
    IF n = 0 THEN text
    ELSE re_sub(re_compile(patterns[n][2].v), trace[n].repl, Composed(n - 1))

C3_SequentialPasses ==
    /\ Len(trace) <= Len(patterns)
    /\ \A n \in DOMAIN trace :
          /\ trace[n].entity_type = patterns[n][1]
          /\ trace[n].pattern = patterns[n][2].v
          /\ trace[n].input = IF n = 1 THEN text ELSE trace[n - 1].output
    /\ pc = "done" =>
          /\ Len(trace) = Len(patterns)
          /\ result.returned
          /\ result.text = Composed(Len(patterns))

\* The address pass matched text the name pass had inserted, and the name
\* rule still matches the returned text.
C3_Witness ==
    /\ pc = "done"
    /\ text = Scenario1
    /\ Len(trace) = 3
    /\ trace[2].input # text
    /\ PassSpans(trace[2]) # <<>>
    /\ PassSpans(trace[2]) # Spans(AddressRule, text)
    /\ Spans(NameRule, result.text) # <<>>

(***************************************************************************)
(* C4  When no substring of the input matches any rule of the pattern set, *)
(* redact returns the input unchanged and raises nothing, whatever the     *)
(* generator returns and whether or not it fails.                          *)
(***************************************************************************)
NoRuleMatches ==
    \A k \in DOMAIN patterns : Valid(k) /\ Spans(patterns[k][2].v, text) = <<>>

C4_NoMatchIdentity ==
    (pc \in {"loop", "done", "raised"} /\ NoRuleMatches) =>
        /\ pc # "raised"
        /\ redacted_text = text
        /\ pc = "done" => result = [returned |-> TRUE, text |-> text]

\* The empty input came back empty although one generator call failed and
\* another returned a value.
C4_Witness ==
    /\ pc = "done"
    /\ text = <<>>
    /\ NoRuleMatches
    /\ result = [returned |-> TRUE, text |-> <<>>]
    /\ \E n \in DOMAIN trace : trace[n].failed
    /\ \E n \in DOMAIN trace : ~trace[n].failed /\ trace[n].repl # <<>>

(***************************************************************************)
(* C5  For a category other than name, address and phone_number the        *)
(* replacement is the empty string: every match is deleted, the generator  *)
(* did not fail, the placeholder is not used, and the label raises no      *)
(* error (only a rule that is not a valid expression does).                *)
(***************************************************************************)
C5_UnknownLabelDeletes ==
    /\ \A n \in DOMAIN trace :
          trace[n].entity_type \notin Known =>
              /\ trace[n].repl = <<>>
              /\ trace[n].repl # REDACTED
              /\ ~trace[n].failed
              /\ trace[n].output =
                     Splice(trace[n].input, PassSpans(trace[n]), <<>>)
              /\ Len(trace[n].output) =
                     Len(trace[n].input) - SpanChars(PassSpans(trace[n]))
    /\ pc = "raised" => ~Valid(idx)

\* "My email is test@example.com" under {"email": ...} gave "My email is ".
C5_Witness ==
    /\ pc = "done"
    /\ text = EmailText
    /\ Len(trace) = 1
    /\ trace[1].entity_type = "email"
    /\ Len(PassSpans(trace[1])) = 1
    /\ result.text = SubSeq(EmailText, 1, 12)

(***************************************************************************)
(* C6  load_patterns fails with the format error, and returns no pattern   *)
(* set, for every parsed source that is not a mapping of string to string. *)
(***************************************************************************)
StrToStr(source) ==
    /\ source.top = "object"
    /\ \A k \in DOMAIN source.items : source.items[k][2].t = "str"

C6_FormatError ==
    (pc # "main" /\ cfg.file = "ok" /\ ~StrToStr(cfg)) =>
        /\ pc = "exit"
        /\ err = "TypeError"
        /\ loaded = None

(***************************************************************************)
(* C7  An engine built from a loaded pattern set applies exactly the       *)
(* loaded categories and no default category the configuration lacks.      *)
(***************************************************************************)
Labels(items) == {items[k][1] : k \in DOMAIN items}

C7_LoadedReplacesDefault ==
    (AfterInit /\ ~loaded.is_none) =>
        /\ Labels(patterns) = Labels(loaded.items)
        /\ patterns = loaded.items

(***************************************************************************)
(* C8  When the pass of a rule that is not a valid expression is reached,  *)
(* redact raises the compile error and returns no text: it never returns   *)
(* with such a rule in the set, and the partially redacted text is not     *)
(* handed back.                                                            *)
(***************************************************************************)
Invalid(k) ==
    /\ patterns[k][2].t = "str"
    /\ re_compile(patterns[k][2].v) = CompileError

C8_State ==
    /\ pc = "done" => \A k \in DOMAIN patterns : ~Invalid(k)
    /\ \A n \in DOMAIN trace : ~Invalid(n)
    /\ (pc = "raised" /\ Invalid(idx)) =>
          /\ err = "re.error"
          /\ result = NoResult

C8_Step ==
    (pc = "loop" /\ idx <= Len(patterns) /\ Invalid(idx)) =>
        /\ pc' = "raised"
        /\ err' = "re.error"
        /\ result' = NoResult

C8_CompileErrorPropagates == []C8_State /\ [][C8_Step]_vars

\* The email pass had already redacted the text when the broken rule raised.
C8_Witness ==
    /\ pc = "raised"
    /\ err = "re.error"
    /\ Invalid(idx)
    /\ Len(trace) = 1
    /\ redacted_text # text
    /\ result = NoResult

(***************************************************************************)
(* C9  In each pass every leftmost non-overlapping match of the rule in    *)
(* the text entering the pass is replaced, and the text outside the        *)
(* matched spans is carried to the output unchanged and in order.          *)
(***************************************************************************)
\* A start position that no replaced span begins at or covers.
Free(sp, q) == \A j \in DOMAIN sp : ~(sp[j][1] = q \/
                                       (sp[j][1] < q /\ q < sp[j][2]))

ToSet(seq) == {seq[k] : k \in DOMAIN seq}

PassSubstitutes(t) ==
    LET sp  == PassSpans(t)
        r   == re_compile(t.pattern)
        len == Len(t.repl)
    IN  /\ \A j \in DOMAIN sp :
              /\ sp[j][1] <= sp[j][2]
              /\ sp[j][2] \in ToSet(Ends(r, t.input, sp[j][1]))
              /\ j > 1 => sp[j - 1][2] <= sp[j][1]
        \* leftmost: no match starts anywhere a span does not begin or cover
        /\ \A q \in 0..Len(t.input) :
              Free(sp, q) => Ends(r, t.input, q) = <<>>
        \* every span is replaced by the replacement
        /\ \A j \in DOMAIN sp :
              LET at == sp[j][1] + Shift(sp, len, j - 1)
              IN  Slice(t.output, at, at + len) = t.repl
        \* nothing else changes
        /\ Len(t.output) = Len(t.input) + Shift(sp, len, Len(sp))
        /\ \A p \in 1..Len(t.input) :
              ~Inside(sp, p) =>
                  t.output[p + Shift(sp, len, Before(sp, p))] = t.input[p]

C9_PassFrame == \A n \in DOMAIN trace : PassSubstitutes(trace[n])

\* A pass replaced two matches with a text of another length and kept the
\* text between and around them.
C9_Witness ==
    /\ text = TwoNames
    /\ Len(trace) >= 1
    /\ Len(PassSpans(trace[1])) = 2
    /\ Len(trace[1].repl) = 8
    /\ trace[1].output # trace[1].input
    /\ Len(trace[1].output) = Len(TwoNames) + 4

(***************************************************************************)
(* C10  Default patterns, scenario 1.  As stated: the output contains no   *)
(* substring matching a default rule and keeps the three segments.         *)
(* As amended: the segments are kept, and every substring of the output    *)
(* that matches a default rule includes text inserted by the redaction.    *)
(***************************************************************************)
Seg1 == SubSeq(Scenario1, 1, 11)
Seg2 == SubSeq(Scenario1, 20, 38)
Seg3 == SubSeq(Scenario1, 50, 73)

DefaultRules == {NameRule, AddressRule, PhoneRule}

\* out holds Seg1, Seg2 and Seg3 verbatim, in that order.
SegmentsPreserved(out) ==
    \E a \in 0..Len(out), b \in 0..Len(out) :
        /\ Len(Seg1) <= a
        /\ a + Len(Seg2) <= b
        /\ b + Len(Seg3) <= Len(out)
        /\ Slice(out, 0, Len(Seg1)) = Seg1
        /\ Slice(out, a, a + Len(Seg2)) = Seg2
        /\ Slice(out, b, b + Len(Seg3)) = Seg3

MatchesSomeRule(out) ==
    \E p \in DefaultRules : \E b \in 0..Len(out) :
        Ends(re_compile(p), out, b) # <<>>

\* For each character of the text after n passes: was it inserted by a pass?
RECURSIVE Inserted(_)
Inserted(n) ==
    IF n = 0 THEN [k \in 1..Len(text) |-> FALSE]
    ELSE Splice(Inserted(n - 1), PassSpans(trace[n]),
                [k \in 1..Len(trace[n].repl) |-> TRUE])

\* Some substring of out made of input characters only matches a rule.
MatchesInInputText(out, ins) ==
    \E p \in DefaultRules : \E b \in 0..Len(out) :
        \E e \in ToSet(Ends(re_compile(p), out, b)) :
            \A k \in (b + 1)..e : ~ins[k]

Scenario1Done ==
    /\ pc = "done"
    /\ text = Scenario1
    /\ patterns = default_patterns

C10_Original ==
    Scenario1Done =>
        /\ ~MatchesSomeRule(result.text)
        /\ SegmentsPreserved(result.text)

C10_Amended ==
    Scenario1Done =>
        /\ Len(Inserted(Len(trace))) = Len(result.text)
        /\ ~MatchesInInputText(result.text, Inserted(Len(trace)))
        /\ SegmentsPreserved(result.text)

\* The output of scenario 1 holds a generated name, which the name rule
\* matches.
C10_Witness ==
    /\ Scenario1Done
    /\ Spans(NameRule, result.text) # <<>>
    /\ ~trace[1].failed
    /\ SegmentsPreserved(result.text)
====
